---- MODULE Spec2Model ----
(***************************************************************************)
(* Model of the AuthProvider component of                                  *)
(* frontendjm/src/contexts/AuthContext.tsx: the auth session (user, token, *)
(* the two localStorage keys, in-flight login/register calls) and the live *)
(* caption engine (listening flag, transcript, capped history, caption     *)
(* style, and the SpeechRecognition objects the component creates).        *)
(*                                                                         *)
(* JavaScript values that may be null are modelled as sequences of length  *)
(* at most one: Null is <<>>, a present value v is <<v>>.  Transcript      *)
(* texts are sequences of one-character strings.  The component body runs  *)
(* once per render, so every committed state change yields a fresh         *)
(* SpeechRecognition object and fresh closures over that render's state.   *)
(***************************************************************************)
EXTENDS Integers, Sequences, FiniteSets, TLC

VARIABLES
    user,              \* useState<User | null>
    token,             \* useState<string | null>
    localStorage,      \* the browser store: key -> Null or <<string>>
    calls,             \* login/register promises issued so far
    hydrated,          \* the mount effects have run
    hydrationCleanup,  \* the hydration effect returned a cleanup function
    mounted,           \* the provider is mounted
    capability,        \* window.SpeechRecognition || webkitSpeechRecognition
    isListening,       \* useState<boolean>
    transcript,        \* useState<string>
    transcriptHistory, \* useState<TranscriptEntry[]>
    captionStyle,      \* useState<CaptionStyle>
    sessions,          \* recognition objects with a session in progress
    current,           \* session of the current render's recognition object, 0 if none
    nextId,            \* next session identity
    clock,             \* Date.now()
    appended,          \* log: entries added to the history since it was last cleared
    lastError,         \* last error written by recognition.onerror (console.error)
    alertShown,        \* last alert() shown to the user
    firstRender,       \* no re-render has been committed since the mount
    event              \* result event dispatched to a session, not yet handled

authVars == <<user, token, localStorage, calls, hydrated, hydrationCleanup, mounted>>
captionVars == <<capability, isListening, transcript, transcriptHistory, captionStyle,
                 sessions, current, nextId, clock, appended, lastError, alertShown,
                 firstRender, event>>
vars == <<user, token, localStorage, calls, hydrated, hydrationCleanup, mounted,
          capability, isListening, transcript, transcriptHistory, captionStyle,
          sessions, current, nextId, clock, appended, lastError, alertShown,
          firstRender, event>>

(***************************************************************************)
(* Bounds of the model.                                                    *)
(***************************************************************************)
MaxCalls == 2
MaxSessions == 2
MaxAppends == 52
MaxHistClock == 1
MaxListenAppends == 2
MaxResults == 2
MaxResultAppends == 2

(***************************************************************************)
(* JavaScript values.                                                      *)
(***************************************************************************)
Null == <<>>

Some(v) == <<v>>

\* ToBoolean of a string-or-null value: null and "" are falsy.
Truthy(opt) == opt # Null /\ opt[1] # ""

MkUser(i, e, f, l) == [id |-> i, email |-> e, firstName |-> f, lastName |-> l]

Users == { MkUser("1", "a@x.io", "Ann", "Lee"), MkUser("2", "b@x.io", "Bob", "Lee") }

Tokens == {"", "t1", "t2"}

\* JSON.stringify of a User object (keys in declaration order).
JSONStringify(u) ==
    "{\"id\":\"" \o u.id \o "\",\"email\":\"" \o u.email
        \o "\",\"firstName\":\"" \o u.firstName
        \o "\",\"lastName\":\"" \o u.lastName \o "\"}"

\* The JSON texts of the values the model can hold in the user state.
JSONValues == {Null} \cup { Some(u) : u \in Users }

JSONText(v) == IF v = Null THEN "null" ELSE JSONStringify(v[1])

\* JSON.parse: the value whose JSON text is s, or a SyntaxError.
JSONParse(s) ==
    IF \E v \in JSONValues : JSONText(v) = s
    THEN [ok |-> TRUE, value |-> CHOOSE v \in JSONValues : JSONText(v) = s]
    ELSE [ok |-> FALSE, value |-> Null]

Keys == {"token", "user"}

getItem(k) == localStorage[k]

setItem(store, k, s) == [store EXCEPT ![k] = Some(s)]

removeItem(store, k) == [store EXCEPT ![k] = Null]

StoredTokens == {Null} \cup { Some(t) : t \in Tokens }

StoredUsers ==
    {Null, Some(""), Some("undefined"), Some("{bad"), Some("null")}
        \cup { Some(JSONStringify(u)) : u \in Users }

\* value.isAuthenticated: !!token
isAuthenticated == Truthy(token)

(***************************************************************************)
(* Rendering.  A committed state change re-runs the component body, which  *)
(* constructs a new SpeechRecognition object; the object of the previous   *)
(* render keeps its session and its handlers.  Without a state change the  *)
(* current render, and its object, stay.                                   *)
(***************************************************************************)
Commit(changed, cur) ==
    /\ current' = IF changed /\ mounted THEN 0 ELSE cur
    /\ firstRender' = (firstRender /\ ~(changed /\ mounted))

(***************************************************************************)
(* Auth session manager.                                                   *)
(***************************************************************************)

\* Hydrate without the setToken call.
HydrateNoSetToken ==
    /\ ~hydrated
    /\ mounted
    /\ hydrated' = TRUE
    /\ LET storedToken == getItem("token")
           storedUser == getItem("user")
       IN IF Truthy(storedToken) /\ Truthy(storedUser) /\ storedUser # Some("undefined")
          THEN LET parsed == JSONParse(storedUser[1])
               IN /\ token' = token
                  /\ IF parsed.ok
                     THEN /\ user' = parsed.value
                          /\ localStorage' = localStorage
                     ELSE /\ user' = user
                          /\ localStorage' =
                                 removeItem(removeItem(localStorage, "token"), "user")
                  /\ hydrationCleanup' = TRUE
                  /\ Commit(TRUE, current)
          ELSE /\ UNCHANGED <<token, user, localStorage, current, firstRender>>
               /\ hydrationCleanup' = FALSE
    /\ UNCHANGED <<calls, mounted, capability, isListening, transcript,
                   transcriptHistory, captionStyle, sessions, nextId, clock,
                   appended, lastError, alertShown>>
    /\ UNCHANGED event

\* The hydration effect, run once after the first render.
Hydrate ==
    /\ ~hydrated
    /\ mounted
    /\ hydrated' = TRUE
    /\ LET storedToken == getItem("token")
           storedUser == getItem("user")
       IN IF Truthy(storedToken) /\ Truthy(storedUser) /\ storedUser # Some("undefined")
          THEN LET parsed == JSONParse(storedUser[1])
               IN /\ token' = storedToken
                  /\ IF parsed.ok
                     THEN /\ user' = parsed.value
                          /\ localStorage' = localStorage
                     ELSE /\ user' = user
                          /\ localStorage' =
                                 removeItem(removeItem(localStorage, "token"), "user")
                  /\ hydrationCleanup' = TRUE
                  /\ Commit(TRUE, current)
          ELSE /\ UNCHANGED <<token, user, localStorage, current, firstRender>>
               /\ hydrationCleanup' = FALSE
    /\ UNCHANGED <<calls, mounted, capability, isListening, transcript,
                   transcriptHistory, captionStyle, sessions, nextId, clock,
                   appended, lastError, alertShown>>
    /\ UNCHANGED event

\* login(email, password) / register(userData) up to the await: the auth
\* service call is issued and the promise is pending.
IssueCall(kind) ==
    /\ hydrated
    /\ mounted
    /\ Len(calls) < MaxCalls
    /\ calls' = Append(calls, [kind |-> kind, status |-> "pending",
                               token |-> Null, user |-> Null,
                               loggedOut |-> FALSE])
    /\ UNCHANGED <<user, token, localStorage, hydrated, hydrationCleanup, mounted>>
    /\ UNCHANGED captionVars

Login == IssueCall("login")

Register == IssueCall("register")

\* Fulfil with request fencing: only the call issued last is applied.
FulfilFenced(c, newToken, userData) ==
    /\ calls[c].status = "pending"
    /\ calls' = [calls EXCEPT ![c] = [@ EXCEPT !.status = "fulfilled",
                                              !.token = Some(newToken),
                                              !.user = Some(userData)]]
    /\ IF c = Len(calls)
       THEN /\ IF mounted
               THEN token' = Some(newToken) /\ user' = Some(userData)
               ELSE UNCHANGED <<token, user>>
            /\ localStorage' = setItem(setItem(localStorage, "token", newToken),
                                       "user", JSONStringify(userData))
            /\ Commit(TRUE, current)
       ELSE UNCHANGED <<token, user, localStorage, current, firstRender>>
    /\ UNCHANGED <<hydrated, hydrationCleanup, mounted, capability, isListening,
                   transcript, transcriptHistory, captionStyle, sessions, nextId,
                   clock, appended, lastError, alertShown>>
    /\ UNCHANGED event

\* Fulfil without localStorage.setItem('user', ...).
FulfilUserNotPersisted(c, newToken, userData) ==
    /\ calls[c].status = "pending"
    /\ calls' = [calls EXCEPT ![c] = [@ EXCEPT !.status = "fulfilled",
                                              !.token = Some(newToken),
                                              !.user = Some(userData)]]
    /\ IF mounted
       THEN token' = Some(newToken) /\ user' = Some(userData)
       ELSE UNCHANGED <<token, user>>
    /\ localStorage' = setItem(localStorage, "token", newToken)
    /\ Commit(TRUE, current)
    /\ UNCHANGED <<hydrated, hydrationCleanup, mounted, capability, isListening,
                   transcript, transcriptHistory, captionStyle, sessions, nextId,
                   clock, appended, lastError, alertShown>>
    /\ UNCHANGED event

\* The continuation after the await when the auth call succeeds with
\* response.data = {token: newToken, user: userData}.
Fulfil(c, newToken, userData) ==
    /\ calls[c].status = "pending"
    /\ calls' = [calls EXCEPT ![c] = [@ EXCEPT !.status = "fulfilled",
                                              !.token = Some(newToken),
                                              !.user = Some(userData)]]
    /\ IF mounted
       THEN token' = Some(newToken) /\ user' = Some(userData)
       ELSE UNCHANGED <<token, user>>
    /\ localStorage' = setItem(setItem(localStorage, "token", newToken),
                               "user", JSONStringify(userData))
    /\ Commit(TRUE, current)
    /\ UNCHANGED <<hydrated, hydrationCleanup, mounted, capability, isListening,
                   transcript, transcriptHistory, captionStyle, sessions, nextId,
                   clock, appended, lastError, alertShown>>
    /\ UNCHANGED event

\* Reject whose catch block also drops the session.
RejectClearsSession(c) ==
    /\ calls[c].status = "pending"
    /\ calls' = [calls EXCEPT ![c].status = "rejected"]
    /\ user' = Null
    /\ token' = Null
    /\ localStorage' = removeItem(removeItem(localStorage, "token"), "user")
    /\ UNCHANGED <<hydrated, hydrationCleanup, mounted>>
    /\ UNCHANGED captionVars

\* The auth call fails: the catch block rethrows, the promise rejects.
Reject(c) ==
    /\ calls[c].status = "pending"
    /\ calls' = [calls EXCEPT ![c].status = "rejected"]
    /\ UNCHANGED <<user, token, localStorage, hydrated, hydrationCleanup, mounted>>
    /\ UNCHANGED captionVars

LoginFulfilled ==
    \E c \in DOMAIN calls, t \in Tokens, u \in Users :
        calls[c].kind = "login" /\ Fulfil(c, t, u)

RegisterFulfilled ==
    \E c \in DOMAIN calls, t \in Tokens, u \in Users :
        calls[c].kind = "register" /\ Fulfil(c, t, u)

LoginRejected == \E c \in DOMAIN calls : calls[c].kind = "login" /\ Reject(c)

RegisterRejected == \E c \in DOMAIN calls : calls[c].kind = "register" /\ Reject(c)

\* The calls in flight when logout() runs are marked: logout does nothing
\* to them.
LoggedOut(cs) ==
    [c \in DOMAIN cs |->
        IF cs[c].status = "pending" THEN [cs[c] EXCEPT !.loggedOut = TRUE] ELSE cs[c]]

\* Logout that clears the session in memory only.
LogoutMemoryOnly ==
    /\ hydrated
    /\ mounted
    /\ user' = Null
    /\ token' = Null
    /\ localStorage' = localStorage
    /\ Commit(user # Null \/ token # Null, current)
    /\ calls' = LoggedOut(calls)
    /\ UNCHANGED <<hydrated, hydrationCleanup, mounted, capability,
                   isListening, transcript, transcriptHistory, captionStyle,
                   sessions, nextId, clock, appended, lastError, alertShown>>
    /\ UNCHANGED event

\* Logout that leaves the 'user' key in the store.
LogoutKeepsUserKey ==
    /\ hydrated
    /\ mounted
    /\ user' = Null
    /\ token' = Null
    /\ localStorage' = removeItem(localStorage, "token")
    /\ Commit(user # Null \/ token # Null, current)
    /\ calls' = LoggedOut(calls)
    /\ UNCHANGED <<hydrated, hydrationCleanup, mounted, capability,
                   isListening, transcript, transcriptHistory, captionStyle,
                   sessions, nextId, clock, appended, lastError, alertShown>>
    /\ UNCHANGED event

Logout ==
    /\ hydrated
    /\ mounted
    /\ user' = Null
    /\ token' = Null
    /\ localStorage' = removeItem(removeItem(localStorage, "token"), "user")
    /\ Commit(user # Null \/ token # Null, current)
    /\ calls' = LoggedOut(calls)
    /\ UNCHANGED <<hydrated, hydrationCleanup, mounted, capability,
                   isListening, transcript, transcriptHistory, captionStyle,
                   sessions, nextId, clock, appended, lastError, alertShown>>
    /\ UNCHANGED event

(***************************************************************************)
(* Live caption engine.                                                    *)
(***************************************************************************)
HistoryCap == 50

WhiteSpace == {" ", "\t", "\n"}

RECURSIVE TrimStart(_)
TrimStart(s) ==
    IF s # <<>> /\ Head(s) \in WhiteSpace THEN TrimStart(Tail(s)) ELSE s

RECURSIVE TrimEnd(_)
TrimEnd(s) ==
    IF s # <<>> /\ s[Len(s)] \in WhiteSpace
    THEN TrimEnd(SubSeq(s, 1, Len(s) - 1))
    ELSE s

\* trim that strips nothing.
TrimNothing(s) == s

\* String.prototype.trim
Trim(s) == TrimEnd(TrimStart(s))

Digit(d) == CASE d = 0 -> "0" [] d = 1 -> "1" [] d = 2 -> "2" [] d = 3 -> "3"
              [] d = 4 -> "4" [] d = 5 -> "5" [] d = 6 -> "6" [] d = 7 -> "7"
              [] d = 8 -> "8" [] d = 9 -> "9"

\* Number.prototype.toString of a non-negative integer.
RECURSIVE NumToString(_)
NumToString(n) ==
    IF n < 10 THEN Digit(n) ELSE NumToString(n \div 10) \o Digit(n % 10)

\* Array.prototype.slice(0, n)
Slice(s, n) == IF Len(s) <= n THEN s ELSE SubSeq(s, 1, n)

\* newEntry of addToHistory.
NewEntry(text, now) == [id |-> NumToString(now), text |-> text]

\* addToHistory without the slice.
addToHistoryUncapped(prev, text, now) ==
    IF Trim(text) = <<>>
    THEN prev
    ELSE <<NewEntry(text, now)>> \o prev

\* addToHistory(text) as the state update it queues on the history prev.
addToHistory(prev, text, now) ==
    IF Trim(text) = <<>>
    THEN prev
    ELSE Slice(<<NewEntry(text, now)>> \o prev, HistoryCap)

\* The loop of recognition.onresult from index i (1-based) on: the history
\* after the queued addToHistory updates.
RECURSIVE HistoryAfter(_, _, _, _)
HistoryAfter(prev, results, i, now) ==
    IF i > Len(results)
    THEN prev
    ELSE HistoryAfter(IF results[i].isFinal
                      THEN addToHistory(prev, results[i].transcript, now)
                      ELSE prev,
                      results, i + 1, now)

\* currentTranscript accumulated over every result, whatever the start index.
RECURSIVE CurrentTranscriptFromStart(_, _)
CurrentTranscriptFromStart(results, i) ==
    IF i > 1
    THEN CurrentTranscriptFromStart(results, 1)
    ELSE IF results = <<>>
         THEN <<>>
         ELSE Head(results).transcript \o CurrentTranscriptFromStart(Tail(results), 1)

\* currentTranscript accumulated by the same loop.
RECURSIVE CurrentTranscript(_, _)
CurrentTranscript(results, i) ==
    IF i > Len(results)
    THEN <<>>
    ELSE results[i].transcript \o CurrentTranscript(results, i + 1)

\* The entries the loop creates, in the order it creates them.
RECURSIVE EntriesCreated(_, _, _)
EntriesCreated(results, i, now) ==
    IF i > Len(results)
    THEN <<>>
    ELSE (IF results[i].isFinal /\ Trim(results[i].transcript) # <<>>
          THEN <<NewEntry(results[i].transcript, now)>>
          ELSE <<>>) \o EntriesCreated(results, i + 1, now)

\* The recognition object r of some render: its session.
SessionOf(id) == CHOOSE s \in sessions : s.id = id

HasSession(id) == \E s \in sessions : s.id = id

\* startListening that sets the flag before it tests for the capability.
startListeningFlagFirst ==
    /\ hydrated
    /\ mounted
    /\ IF ~capability
       THEN /\ alertShown' = Some("unsupported")
            /\ isListening' = TRUE
            /\ Commit(~isListening, current)
            /\ UNCHANGED <<transcript, sessions, nextId>>
       ELSE /\ isListening' = TRUE
            /\ transcript' = <<>>
            /\ IF current = 0
               THEN \* recognition.start() on the object of this render, whose
                    \* onend closes over this render's isListening
                    /\ nextId <= MaxSessions
                    /\ sessions' = sessions \cup
                           {[id |-> nextId, listening |-> isListening,
                             stopping |-> FALSE, first |-> firstRender]}
                    /\ nextId' = nextId + 1
                    /\ Commit(~isListening \/ transcript # <<>>, nextId)
               ELSE \* start() on an object already started: InvalidStateError
                    /\ UNCHANGED <<sessions, nextId>>
                    /\ Commit(~isListening \/ transcript # <<>>, current)
            /\ UNCHANGED alertShown
    /\ UNCHANGED authVars
    /\ UNCHANGED <<capability, transcriptHistory, captionStyle, clock, appended,
                   lastError>>
    /\ UNCHANGED event

startListening ==
    /\ hydrated
    /\ mounted
    /\ IF ~capability
       THEN /\ alertShown' = Some("unsupported")
            /\ UNCHANGED <<isListening, transcript, sessions, current, nextId,
                           firstRender>>
       ELSE /\ isListening' = TRUE
            /\ transcript' = <<>>
            /\ IF current = 0
               THEN \* recognition.start() on the object of this render, whose
                    \* onend closes over this render's isListening
                    /\ nextId <= MaxSessions
                    /\ sessions' = sessions \cup
                           {[id |-> nextId, listening |-> isListening,
                             stopping |-> FALSE, first |-> firstRender]}
                    /\ nextId' = nextId + 1
                    /\ Commit(~isListening \/ transcript # <<>>, nextId)
               ELSE \* start() on an object already started: InvalidStateError
                    /\ UNCHANGED <<sessions, nextId>>
                    /\ Commit(~isListening \/ transcript # <<>>, current)
            /\ UNCHANGED alertShown
    /\ UNCHANGED authVars
    /\ UNCHANGED <<capability, transcriptHistory, captionStyle, clock, appended,
                   lastError>>
    /\ UNCHANGED event

\* recognition.stop() on the object whose session is id (0: no session).
Stop(ss, id) ==
    { IF s.id = id THEN [s EXCEPT !.stopping = TRUE] ELSE s : s \in ss }

stopListening ==
    /\ hydrated
    /\ mounted
    /\ IF ~capability
       THEN UNCHANGED <<isListening, sessions, current, firstRender>>
       ELSE /\ isListening' = FALSE
            /\ sessions' = Stop(sessions, current)
            /\ Commit(isListening, current)
    /\ UNCHANGED authVars
    /\ UNCHANGED <<capability, transcript, transcriptHistory, captionStyle, nextId,
                   clock, appended, lastError, alertShown>>
    /\ UNCHANGED event

\* recognition.onend of the object with session id: the session is over
\* (by itself, or after stop()); the handler restarts it when the
\* isListening it closed over is true.
onend(id) ==
    /\ HasSession(id)
    /\ LET s == SessionOf(id)
       IN IF s.listening
          THEN /\ sessions' = (sessions \ {s}) \cup {[s EXCEPT !.stopping = FALSE]}
               /\ UNCHANGED current
          ELSE /\ sessions' = sessions \ {s}
               /\ current' = IF current = id THEN 0 ELSE current
    /\ UNCHANGED authVars
    /\ UNCHANGED <<capability, isListening, transcript, transcriptHistory,
                   captionStyle, nextId, clock, appended, lastError, alertShown,
                   firstRender>>
    /\ UNCHANGED event

ErrorCodes == {"not-allowed", "no-speech", "network"}

\* onerror with the setIsListening(false) call enabled.
onerrorResetsListening(id, error) ==
    /\ HasSession(id)
    /\ lastError' = Some(error)
    /\ alertShown' = IF error = "not-allowed" THEN Some("denied") ELSE alertShown
    /\ isListening' = IF mounted THEN FALSE ELSE isListening
    /\ Commit(isListening, current)
    /\ UNCHANGED authVars
    /\ UNCHANGED <<capability, transcript, transcriptHistory, captionStyle,
                   sessions, nextId, clock, appended>>
    /\ UNCHANGED event

onerror(id, error) ==
    /\ HasSession(id)
    /\ lastError' = Some(error)
    /\ alertShown' = IF error = "not-allowed" THEN Some("denied") ELSE alertShown
    /\ UNCHANGED authVars
    /\ UNCHANGED <<capability, isListening, transcript, transcriptHistory,
                   captionStyle, sessions, current, nextId, clock, appended,
                   firstRender>>
    /\ UNCHANGED event

\* recognition.onresult of the object with session id, for an event with
\* the given results and resultIndex (1-based here, 0-based in the code).
onresult(id, results, resultIndex) ==
    /\ HasSession(id)
    /\ LET hist == HistoryAfter(transcriptHistory, results, resultIndex, clock)
           created == EntriesCreated(results, resultIndex, clock)
           text == CurrentTranscript(results, resultIndex)
       IN /\ IF mounted
             THEN /\ transcriptHistory' = hist
                  /\ transcript' = text
                  /\ appended' = appended \o created
             ELSE UNCHANGED <<transcriptHistory, transcript, appended>>
          /\ Commit(created # <<>> \/ text # transcript, current)
    /\ UNCHANGED authVars
    /\ UNCHANGED <<capability, isListening, captionStyle, sessions, nextId, clock,
                   lastError, alertShown>>
    /\ event' = Null

clearHistory ==
    /\ hydrated
    /\ mounted
    /\ transcriptHistory' = <<>>
    /\ appended' = <<>>
    /\ Commit(TRUE, current)
    /\ UNCHANGED authVars
    /\ UNCHANGED <<capability, isListening, transcript, captionStyle, sessions,
                   nextId, clock, lastError, alertShown>>
    /\ UNCHANGED event

FontSizes == {"small", "medium", "large"}

Colors == {"white", "red"}

CaptionStyles == [fontSize : FontSizes, color : Colors]

\* Partial<CaptionStyle>: a record with some of the fields.
PartialStyles ==
    {<<>>} \cup { [fontSize |-> f] : f \in FontSizes }
           \cup { [color |-> c] : c \in Colors }
           \cup CaptionStyles

\* The update replaces the style instead of merging into it.
MergeReplace(prev, style) == style

\* { ...prev, ...style }
Merge(prev, style) ==
    [k \in DOMAIN prev \cup DOMAIN style |->
        IF k \in DOMAIN style THEN style[k] ELSE prev[k]]

updateCaptionStyle(style) ==
    /\ hydrated
    /\ mounted
    /\ captionStyle' = Merge(captionStyle, style)
    /\ Commit(TRUE, current)
    /\ UNCHANGED authVars
    /\ UNCHANGED <<capability, isListening, transcript, transcriptHistory, sessions,
                   nextId, clock, appended, lastError, alertShown>>
    /\ UNCHANGED event

\* isListening as closed over by the effects of the first render: useState(false).
MountIsListening == FALSE

\* The cleanup registered by either mount effect: it closes over the first
\* render's recognition object and isListening.
Cleanup(ss) ==
    IF capability /\ MountIsListening
    THEN { IF s.first THEN [s EXCEPT !.stopping = TRUE] ELSE s : s \in ss }
    ELSE ss

\* Unmount of the provider: React runs the cleanups of the mount effects.
Unmount ==
    /\ hydrated
    /\ mounted
    /\ mounted' = FALSE
    /\ sessions' = IF hydrationCleanup THEN Cleanup(Cleanup(sessions))
                                       ELSE Cleanup(sessions)
    /\ UNCHANGED <<user, token, localStorage, calls, hydrated, hydrationCleanup>>
    /\ UNCHANGED <<capability, isListening, transcript, transcriptHistory,
                   captionStyle, current, nextId, clock, appended, lastError,
                   alertShown, firstRender>>
    /\ UNCHANGED event

\* Time passes.
Tick(max) ==
    /\ clock < max
    /\ clock' = clock + 1
    /\ UNCHANGED authVars
    /\ UNCHANGED <<capability, isListening, transcript, transcriptHistory,
                   captionStyle, sessions, current, nextId, appended, lastError,
                   alertShown, firstRender>>
    /\ UNCHANGED event

(***************************************************************************)
(* Initial state: the first render, before the mount effects.              *)
(***************************************************************************)
DefaultCaptionStyle == [fontSize |-> "medium", color |-> "white"]

Init ==
    /\ user = Null
    /\ token = Null
    /\ localStorage \in [Keys -> StoredTokens \cup StoredUsers]
    /\ localStorage["token"] \in StoredTokens
    /\ localStorage["user"] \in StoredUsers
    /\ calls = <<>>
    /\ hydrated = FALSE
    /\ hydrationCleanup = FALSE
    /\ mounted = TRUE
    /\ capability \in BOOLEAN
    /\ isListening = FALSE
    /\ transcript = <<>>
    /\ transcriptHistory = <<>>
    /\ captionStyle = DefaultCaptionStyle
    /\ sessions = {}
    /\ current = 0
    /\ nextId = 1
    /\ clock = 0
    /\ appended = <<>>
    /\ lastError = Null
    /\ alertShown = Null
    /\ firstRender = TRUE
    /\ event = Null

(***************************************************************************)
(* The auth session manager on its own: the caption engine is idle.        *)
(***************************************************************************)
InitAuth == Init /\ capability = TRUE

NextAuth ==
    \/ Hydrate
    \/ Login
    \/ Register
    \/ LoginFulfilled
    \/ RegisterFulfilled
    \/ LoginRejected
    \/ RegisterRejected
    \/ Logout

SpecAuth == InitAuth /\ [][NextAuth]_vars

(***************************************************************************)
(* Recognition result events: results[i] is the best alternative of the    *)
(* i-th result and its isFinal mark.                                       *)
(***************************************************************************)
ResultsOver(texts, maxLen) ==
    UNION { [1..n -> [isFinal : BOOLEAN, transcript : texts]] : n \in 1..maxLen }

Events(texts, maxLen) ==
    { e \in [results : ResultsOver(texts, maxLen), resultIndex : 1..maxLen] :
        e.resultIndex <= Len(e.results) }

SessionIds == 1..(MaxSessions + 1)

(***************************************************************************)
(* The caption engine's listening life cycle, with a logged-out or a       *)
(* logged-in store at the mount.                                           *)
(***************************************************************************)
ListenTexts == {<<"a">>, <<" ", "\n">>, <<>>}

ListenEvents == Events(ListenTexts, 1)

InitListen ==
    /\ Init
    /\ \/ localStorage = [k \in Keys |-> Null]
       \/ \E u \in Users :
              localStorage = [k \in Keys |->
                  IF k = "token" THEN Some("t1") ELSE Some(JSONStringify(u))]

NextListen ==
    \/ Hydrate
    \/ startListening
    \/ stopListening
    \/ \E id \in SessionIds : onend(id)
    \/ \E id \in SessionIds, error \in ErrorCodes : onerror(id, error)
    \/ \E id \in SessionIds, e \in ListenEvents :
          Len(appended) < MaxListenAppends /\ onresult(id, e.results, e.resultIndex)
    \/ clearHistory
    \/ Unmount

SpecListen == InitListen /\ [][NextListen]_vars

(***************************************************************************)
(* The transcript history under a long run of result events.               *)
(***************************************************************************)
HistTexts == {<<"a">>, <<" ">>}

HistEvents == Events(HistTexts, 1)

InitHist ==
    /\ Init
    /\ localStorage = [k \in Keys |-> Null]
    /\ capability = TRUE

NextHist ==
    \/ Hydrate
    \/ startListening
    \/ \E id \in SessionIds, e \in HistEvents :
          Len(appended) < MaxAppends /\ onresult(id, e.results, e.resultIndex)
    \/ clearHistory
    \/ Tick(MaxHistClock)

SpecHist == InitHist /\ [][NextHist]_vars

(***************************************************************************)
(* Result events with several results, a start index and a running clock.  *)
(***************************************************************************)
ResultKinds ==
    { [isFinal |-> TRUE, transcript |-> <<"a">>],
      [isFinal |-> TRUE, transcript |-> <<" ", "b">>],
      [isFinal |-> TRUE, transcript |-> <<" ">>],
      [isFinal |-> FALSE, transcript |-> <<"a">>] }

ResultEvents ==
    { e \in [results : UNION { [1..n -> ResultKinds] : n \in 1..MaxResults },
             resultIndex : 1..MaxResults] :
        e.resultIndex <= Len(e.results) }

\* The recognition service fires a result event at the object with session
\* id; its onresult handler has not run yet.
dispatch(id, e) ==
    /\ event = Null
    /\ HasSession(id)
    /\ event' = Some([id |-> id, results |-> e.results, resultIndex |-> e.resultIndex])
    /\ UNCHANGED authVars
    /\ UNCHANGED <<capability, isListening, transcript, transcriptHistory,
                   captionStyle, sessions, current, nextId, clock, appended,
                   lastError, alertShown, firstRender>>

\* The handler runs on the dispatched event.
deliver ==
    /\ event # Null
    /\ onresult(event[1].id, event[1].results, event[1].resultIndex)

NextResult ==
    \/ event = Null /\ Hydrate
    \/ event = Null /\ startListening
    \/ \E id \in SessionIds, e \in ResultEvents :
          Len(appended) < MaxResultAppends /\ dispatch(id, e)
    \/ deliver
    \/ event = Null /\ clearHistory

SpecResult == InitHist /\ [][NextResult]_vars

(***************************************************************************)
(* Caption style updates, interleaved with the listening life cycle.       *)
(***************************************************************************)
NextCaption ==
    \/ NextListen
    \/ \E style \in PartialStyles : updateCaptionStyle(style)

SpecCaption == InitListen /\ [][NextCaption]_vars

(***************************************************************************)
(* The auth session manager started on a consistent store: neither key, or *)
(* a non-empty token with the serialization of a user.                     *)
(***************************************************************************)
InitAgree ==
    /\ Init
    /\ capability = TRUE
    /\ \/ localStorage = [k \in Keys |-> Null]
       \/ \E t \in Tokens \ {""}, u \in Users :
              localStorage = [k \in Keys |->
                  IF k = "token" THEN Some(t) ELSE Some(JSONStringify(u))]

SpecAgree == InitAgree /\ [][NextAuth]_vars

(***************************************************************************)
(* Properties.                                                             *)
(***************************************************************************)
NoKeys == [k \in Keys |-> Null]

\* A stored user value that JSON.parse accepts, and the value it denotes.
Parsable(stored) == \E v \in JSONValues : stored = Some(JSONText(v))

Unparsable(stored) == stored # Null /\ ~Parsable(stored)

HydrationStep == ~hydrated /\ hydrated'

\* C1: hydration with a 'token' key present and a stored user that is the
\* literal "undefined" or is unparsable ends logged out, with both keys
\* removed from the store (stated for a non-empty token and user value).
C1_CorruptStoreDiscarded ==
    [][(HydrationStep /\ Truthy(localStorage["token"])
            /\ Truthy(localStorage["user"])
            /\ Unparsable(localStorage["user"]))
        => (~isAuthenticated' /\ localStorage' = NoKeys)]_vars

\* C2: hydration with a non-empty stored token and a parsable stored user
\* ends authenticated, with the stored token and the parsed stored user in
\* memory and the store unchanged.
C2_ValidStoreHydrated ==
    [][(HydrationStep /\ localStorage["token"] # Null
            /\ localStorage["token"] # Some("")
            /\ Parsable(localStorage["user"]))
        => /\ isAuthenticated'
           /\ token' = localStorage["token"]
           /\ \A v \in JSONValues :
                 localStorage["user"] = Some(JSONText(v)) => user' = v
           /\ localStorage' = localStorage]_vars

C2_Witness ==
    /\ hydrated
    /\ calls = <<>>
    /\ isAuthenticated
    /\ user # Null
    /\ localStorage["token"] = token
    /\ localStorage["user"] = Some(JSONStringify(user[1]))

Fulfilled(c) == calls[c].status = "pending" /\ calls'[c].status = "fulfilled"

Rejected(c) == calls[c].status = "pending" /\ calls'[c].status = "rejected"

\* C3: when a login or register call resolves successfully, the token and
\* user in memory are the ones the auth call returned, key 'token' holds
\* that token and key 'user' holds the serialization of that user (which
\* parses back to the user).
C3_SessionInstalled ==
    [][\A c \in DOMAIN calls :
        Fulfilled(c) =>
            /\ token' = calls'[c].token
            /\ user' = calls'[c].user
            /\ localStorage'["token"] = calls'[c].token
            /\ localStorage'["user"] = Some(JSONStringify(calls'[c].user[1]))
            /\ JSONParse(localStorage'["user"][1]) =
                   [ok |-> TRUE, value |-> calls'[c].user]]_vars

C3_Witness ==
    /\ \E c \in DOMAIN calls : calls[c].kind = "login" /\ calls[c].status = "fulfilled"
    /\ \E c \in DOMAIN calls :
          /\ calls[c].kind = "register"
          /\ calls[c].status = "fulfilled"
          /\ token = calls[c].token
          /\ user = calls[c].user

\* C4: when the auth call of a login or register fails, the promise is
\* rejected and the token and user in memory and the two stored keys are
\* as they were.
C4_FailureChangesNothing ==
    [][\A c \in DOMAIN calls :
        Rejected(c) => UNCHANGED <<token, user, localStorage>>]_vars

C4_Witness ==
    /\ isAuthenticated
    /\ localStorage["token"] = token
    /\ \E c \in DOMAIN calls : calls[c].kind = "login" /\ calls[c].status = "rejected"
    /\ \E c \in DOMAIN calls : calls[c].kind = "register" /\ calls[c].status = "rejected"

\* C5: right after logout, from any state, isAuthenticated is false, user
\* and token are null and both stored keys are absent.
C5_LogoutClears ==
    [][Logout =>
        /\ ~isAuthenticated'
        /\ user' = Null
        /\ token' = Null
        /\ localStorage' = NoKeys]_vars

C5_Witness ==
    /\ \E c \in DOMAIN calls : calls[c].status = "fulfilled"
    /\ \E c \in DOMAIN calls : calls[c].status = "pending"
    /\ token = Null
    /\ user = Null
    /\ localStorage = NoKeys

\* Sessions that are running: started and not told to stop.
Running == { s.id : s \in { r \in sessions : ~r.stopping } }

Max(S) == CHOOSE x \in S : \A y \in S : y <= x

\* C6: after stopListening with the capability present and a recognition
\* session running, isListening is false and the running session (the one
\* started last) has been told to stop.
C6_StopStopsRunningSession ==
    [][(stopListening /\ capability /\ Running # {})
        => (~isListening' /\ Max(Running) \notin Running')]_vars

\* C7: when a running session ends by itself, it is restarted if the
\* listening flag is true, and isListening stays true; it is not restarted
\* if the flag is false.
C7_RestartFollowsFlag ==
    [][\A id \in SessionIds :
        (mounted /\ id \in Running /\ onend(id))
            => /\ isListening' = isListening
               /\ isListening => id \in Running'
               /\ ~isListening => id \notin Running']_vars

\* C8: unmounting while isListening is true and a session is running stops
\* that session.
C8_UnmountStopsRunningSession ==
    [][(mounted /\ ~mounted' /\ isListening /\ Running # {})
        => Max(Running) \notin Running']_vars

\* C9: the history never has more than 50 entries and is the newest-first
\* list of the most recent entries added since the last clearHistory; once
\* more than 50 were added it has exactly 50.
C9_HistoryCappedNewestFirst ==
    /\ Len(transcriptHistory) <= 50
    /\ \A i \in 1..Len(transcriptHistory) :
          transcriptHistory[i] = appended[Len(appended) + 1 - i]
    /\ Len(appended) <= 50 => Len(transcriptHistory) = Len(appended)
    /\ Len(appended) > 50 => Len(transcriptHistory) = 50

C9_Witness ==
    /\ Len(appended) > 51
    /\ Len(transcriptHistory) = 50
    /\ transcriptHistory[1].id # transcriptHistory[50].id

Blank(text) == \A i \in 1..Len(text) : text[i] \in WhiteSpace

\* C10: a result event whose finalized results are all empty or whitespace
\* leaves the history as it was.
C10_BlankResultKeepsHistory ==
    [][\A id \in SessionIds, e \in ListenEvents :
        (onresult(id, e.results, e.resultIndex)
            /\ \A i \in e.resultIndex..Len(e.results) :
                  e.results[i].isFinal => Blank(e.results[i].transcript))
        => transcriptHistory' = transcriptHistory]_vars

C10_Witness ==
    /\ Len(transcriptHistory) = 1
    /\ transcriptHistory = appended
    /\ Blank(transcript)
    /\ transcript # <<>>

\* C11: the text of every history entry is non-empty and trimmed.
C11_EntriesTrimmed ==
    \A i \in 1..Len(transcriptHistory) :
        /\ transcriptHistory[i].text # <<>>
        /\ transcriptHistory[i].text[1] \notin WhiteSpace
        /\ transcriptHistory[i].text[Len(transcriptHistory[i].text)] \notin WhiteSpace

\* C12: the ids of the history entries are pairwise distinct.
C12_IdsDistinct ==
    \A i, j \in 1..Len(transcriptHistory) :
        i # j => transcriptHistory[i].id # transcriptHistory[j].id

\* The results of an event from its start index on.
Window(e) == SubSeq(e.results, e.resultIndex, Len(e.results))

RECURSIVE Flatten(_)
Flatten(texts) ==
    IF texts = <<>>
    THEN <<>>
    ELSE Flatten(SubSeq(texts, 1, Len(texts) - 1)) \o texts[Len(texts)]

FinalNonBlank(r) == r.isFinal /\ ~Blank(r.transcript)

\* C16: a result event replaces the transcript by the concatenation, in
\* index order, of the results from resultIndex on, and puts each final
\* non-blank result of that window in front of the history once, in index
\* order (the later result in front); earlier results contribute nothing.
C16_ResultEventEffect ==
    [][(event # Null /\ event' = Null) =>
            LET w == Window(event[1])
                finals == SelectSeq(w, FinalNonBlank)
                n == Len(finals)
            IN /\ transcript' = Flatten([i \in 1..Len(w) |-> w[i].transcript])
               /\ Len(transcriptHistory') = Len(transcriptHistory) + n
               /\ \A i \in 1..n :
                     transcriptHistory'[i].text = finals[n + 1 - i].transcript
               /\ \A i \in 1..Len(transcriptHistory) :
                     transcriptHistory'[n + i] = transcriptHistory[i]]_vars

C16_Witness ==
    /\ event = Null
    /\ Len(transcriptHistory) = 3
    /\ transcriptHistory[1].text # transcriptHistory[2].text
    /\ Len(transcript) = 3

\* C13: without the recognition capability, startListening leaves
\* isListening false, the transcript and the history as they were and starts
\* no recognition; stopListening changes nothing at all.
C13_AbsentCapabilityInert ==
    [][/\ (~capability /\ startListening) =>
              /\ ~isListening'
              /\ sessions' = {}
              /\ UNCHANGED <<isListening, transcript, transcriptHistory, sessions>>
       /\ (~capability /\ stopListening) => UNCHANGED vars]_vars

C13_Witness ==
    /\ ~capability
    /\ hydrated
    /\ alertShown = Some("unsupported")
    /\ ~isListening
    /\ sessions = {}

\* C14: updateCaptionStyle(partial) sets exactly the fields present in
\* partial, to the given values; the other caption-style fields and the
\* session, transcript, history and listening flag are as before.
C14_StyleMerged ==
    [][\A style \in PartialStyles :
        updateCaptionStyle(style) =>
            /\ DOMAIN captionStyle' = {"fontSize", "color"}
            /\ \A k \in DOMAIN style : captionStyle'[k] = style[k]
            /\ \A k \in {"fontSize", "color"} \ DOMAIN style :
                  captionStyle'[k] = captionStyle[k]
            /\ UNCHANGED <<user, token, localStorage, transcript,
                           transcriptHistory, isListening>>]_vars

C14_Witness ==
    /\ captionStyle = [fontSize |-> "medium", color |-> "red"]
    /\ isListening
    /\ isAuthenticated
    /\ transcriptHistory # <<>>

\* C15: in every state, isAuthenticated is true exactly when the token in
\* memory is non-null.
C15_AuthenticatedIffToken == isAuthenticated <=> token # Null

\* C17: when two login/register calls overlap and both succeed, each
\* resolution installs its own call's session, so the call resolved last
\* wins whichever was issued last; after each resolution the store agrees
\* with memory.
C17_LastResolutionWins ==
    [][\A c, d \in DOMAIN calls :
        (/\ c # d
         /\ Fulfilled(c)
         /\ \/ calls[d].status = "pending"
            \/ calls[d].status = "fulfilled" /\ c < d)
        => /\ token' = calls'[c].token
           /\ user' = calls'[c].user
           /\ localStorage'["token"] = token'
           /\ localStorage'["user"] = Some(JSONText(user'))]_vars

C17_Witness ==
    /\ Len(calls) >= 2
    /\ calls[1].status = "fulfilled"
    /\ calls[2].status = "fulfilled"
    /\ calls[1].token # calls[2].token
    /\ calls[1].user # calls[2].user
    /\ token = calls[1].token
    /\ user = calls[1].user
    /\ localStorage["token"] = calls[1].token

\* C18: a recognition error event of any kind leaves the listening flag,
\* the transcript, the history and the caption style as they were, and
\* isListening changes only by startListening (to true, with the
\* capability) and by stopListening (to false).
C18_ErrorKeepsState ==
    [][/\ \A id \in SessionIds, error \in ErrorCodes :
              onerror(id, error) =>
                  UNCHANGED <<isListening, transcript, transcriptHistory, captionStyle>>
       /\ isListening' # isListening =>
              \/ startListening /\ capability /\ isListening'
              \/ stopListening /\ ~isListening']_vars

C18_Witness ==
    /\ lastError = Some("not-allowed")
    /\ alertShown = Some("denied")
    /\ isListening
    /\ transcript # <<>>
    /\ transcriptHistory # <<>>
    /\ captionStyle # DefaultCaptionStyle

\* C19: a login or register call that was in flight when logout ran, and
\* then resolves successfully, leaves the provider authenticated with that
\* call's token and user, and both keys stored again.
C19_LogoutDoesNotCancel ==
    [][\A c \in DOMAIN calls :
        (Fulfilled(c) /\ calls[c].loggedOut)
        => /\ isAuthenticated'
           /\ token' = calls'[c].token
           /\ user' = calls'[c].user
           /\ localStorage'["token"] = calls'[c].token
           /\ localStorage'["user"] = Some(JSONText(calls'[c].user))]_vars

\* C20: from a consistent store, in every state after hydration the
\* 'token' key is present exactly when the token in memory is non-null, and
\* is that token, and the 'user' key is the serialization of the user in
\* memory (absent when there is none).
C20_StoreAgreesWithMemory ==
    hydrated =>
        /\ localStorage["token"] = Null <=> token = Null
        /\ token # Null => localStorage["token"] = Some(token[1])
        /\ localStorage["user"] =
               IF user = Null THEN Null ELSE Some(JSONStringify(user[1]))

C20_Witness ==
    /\ hydrated
    /\ \E c \in DOMAIN calls :
          /\ calls[c].status = "fulfilled"
          /\ calls[c].loggedOut
          /\ token = calls[c].token
    /\ \E c \in DOMAIN calls : calls[c].status = "pending"
    /\ localStorage["token"] = token
    /\ user # Null

====
